---- MODULE Spec2Model ----
(***************************************************************************)
(* Model of src/fetch.py: the OAuth2 token refresh, the authenticated GET  *)
(* (api_get), the memoized contact lookup (get_contact_name) and the       *)
(* pagination loop of list_invoices with its summary and CSV export.       *)
(*                                                                         *)
(* Python values are encoded as follows.  A dict is a TLA+ record whose    *)
(* DOMAIN is the set of keys present; dict.get(k) of an absent key is      *)
(* None.  For the invoice and line-item dicts a JSON null is modelled as   *)
(* the key being absent, because the code reads them only through          *)
(* dict.get(k), which cannot tell the two apart.  The remote service is    *)
(* the environment: every response it gives is an input of the actions.    *)
(***************************************************************************)
EXTENDS Integers, Sequences, FiniteSets, TLC

VARIABLES
    pc,              \* position in list_invoices: fetch, process, next, summary, done, raised
    ACCESS_TOKEN,    \* module global, fetch.py:12
    REFRESH_TOKEN,   \* module global, fetch.py:13
    dotenv,          \* the tokens persisted in .env by save_tokens
    contact_cache,   \* the lru_cache of get_contact_name: contact id -> name
    page,            \* fetch.py:107
    next_url,        \* fetch.py:108
    prev_next,       \* fetch.py:109
    seen_ids,        \* fetch.py:110
    invoices,        \* the collection of the page being processed, fetch.py:130
    idx,             \* position of the for loop of fetch.py:145 in invoices
    csv_rows,        \* fetch.py:103
    total_from_api,  \* fetch.py:104
    total_kept,      \* fetch.py:105
    csv_file,        \* the CSV file: whether it was written, and the rows written
    summary,         \* the summary: whether it was printed, and the two counts
    last_call,       \* history: the requests and the result of the latest api_get call
    contact_gets,    \* history: api_get calls issued by get_contact_name, per contact id
    n_fetches,       \* history: number of page fetches (loop iterations) so far
    n_refreshes,     \* history: number of successful token refreshes so far
    last_fetch,      \* history: the latest page fetch, and the state it started from
    kept_log         \* history: one entry per increment of total_kept, in order

vars == <<pc, ACCESS_TOKEN, REFRESH_TOKEN, dotenv, contact_cache, page, next_url,
          prev_next, seen_ids, invoices, idx, csv_rows, total_from_api, total_kept,
          csv_file, summary, last_call, contact_gets, n_fetches, n_refreshes,
          last_fetch, kept_log>>

\* ---------------------------------------------------------------- constants
None == "None"
BASE_URL == "https://api.example"
PAGE_SIZE == 50
MAX_PAGES == 500

\* Bound of the model: page fetches of one run explored under Spec.
MaxFetches == 2
\* Bound of the model: successful token refreshes of one run.
MaxRefreshes == 1
\* Bound of the model: page fetches of one run explored under SpecCap.
CapFetches == 502
\* Bound of the model: page fetches of one run explored under SpecCursor.
MaxCursorFetches == 6

\* ---------------------------------------------------------------- python helpers
\* bool(v) of a string-or-None value.
Truthy(v) == v # None /\ v # ""

\* d.get(k) of a dict whose value under k is a string.
Get(d, k) == IF k \in DOMAIN d THEN d[k] ELSE None

\* d.get(k, default)
GetDefault(d, k, default) == IF k \in DOMAIN d THEN d[k] ELSE default

\* The empty dict {}.
EmptyDict == [k \in {} |-> None]

\* a or b, for string-or-None values.
Or(a, b) == IF Truthy(a) THEN a ELSE b

\* `d.get(k) or default` of a numeric field (absent, null and 0 are all falsy).
GetNumOr(d, k, default) == IF k \in DOMAIN d /\ d[k] # 0 THEN d[k] ELSE default

\* `d.get(k)` of a list field, where only its emptiness is read (None and [] are falsy).
GetList(d, k) == IF k \in DOMAIN d THEN d[k] ELSE <<>>

StartsWith(s, p) == Len(s) >= Len(p) /\ SubSeq(s, 1, Len(p)) = p

\* A faulty lower-casing: the .lower() of fetch.py:151 left out.
NotLowered(s) == s

\* str.lower() on the status strings the environment sends.
Lower(s) ==
    CASE s \in {"Deleted", "DELETED", "deleted"} -> "deleted"
      [] s \in {"Delete", "delete"} -> "delete"
      [] s \in {"Archived", "ARCHIVED", "archived"} -> "archived"
      [] s = "Paid" -> "paid"
      [] s = "Draft" -> "draft"
      [] OTHER -> s

\* f"{x:.2f}" of the quotient num/den of two integers, num >= 0 and den > 0:
\* the quotient rounded to hundredths (ties to even, as for an exact binary
\* value), printed with two decimals.
Cents(num, den) ==
    LET q == (num * 100) \div den
        r == (num * 100) % den
    IN  IF 2 * r > den \/ (2 * r = den /\ q % 2 = 1) THEN q + 1 ELSE q

Format2f(num, den) ==
    LET c == Cents(num, den)
        f == c % 100
    IN  ToString(c \div 100) \o "." \o (IF f < 10 THEN "0" ELSE "") \o ToString(f)

\* ---------------------------------------------------------------- HTTP
\* What one HTTP request yields: a response with a status code, or a
\* network-level exception raised by requests.get / requests.post.
Response(s) == [status_code |-> s]
NetworkError == [error |-> "ConnectionError"]
IsError(o) == "error" \in DOMAIN o
\* What an api_get call that raised has for a response, and the params of a
\* call made without any (params=None).
NoResponse == [no_response |-> TRUE]
NoParams == [no_params |-> TRUE]
\* requests.Response.ok
Ok(resp) == resp.status_code < 400

\* save_tokens, fetch.py:20-26
save_tokens(env, access_token, refresh_token) ==
    IF Truthy(refresh_token)
    THEN [env EXCEPT !.ACCESS_TOKEN = access_token, !.REFRESH_TOKEN = refresh_token]
    ELSE [env EXCEPT !.ACCESS_TOKEN = access_token]

\* A faulty refresh: the check of fetch.py:33-34 left out, so that the POST is
\* sent with whatever REFRESH_TOKEN holds.
refresh_access_token_unchecked(tok, o) ==
    LET post == [method |-> "POST", grant_type |-> "refresh_token",
                 refresh_token |-> tok.REFRESH_TOKEN]
    IN  IF IsError(o)
        THEN [tok |-> tok, posts |-> <<post>>, raised |-> "ConnectionError"]
        ELSE IF o.status_code >= 400
        THEN [tok |-> tok, posts |-> <<post>>, raised |-> "HTTPError"]
        ELSE [tok |-> [ACCESS_TOKEN |-> o.json["access_token"],
                       REFRESH_TOKEN |-> GetDefault(o.json, "refresh_token",
                                                    tok.REFRESH_TOKEN),
                       dotenv |-> save_tokens(tok.dotenv, o.json["access_token"],
                                              GetDefault(o.json, "refresh_token",
                                                         tok.REFRESH_TOKEN))],
              posts |-> <<post>>, raised |-> None]

\* refresh_access_token, fetch.py:28-48.  `tok` is the token state it starts
\* from, `o` what the token endpoint answers.  The result carries the token
\* state it leaves, the POSTs it sent and whether it raised.
refresh_access_token(tok, o) ==
    IF ~Truthy(tok.REFRESH_TOKEN)
    THEN [tok |-> tok, posts |-> <<>>, raised |-> "RuntimeError"]
    ELSE
      LET post == [method |-> "POST", grant_type |-> "refresh_token",
                   refresh_token |-> tok.REFRESH_TOKEN]
      IN  IF IsError(o)
          THEN [tok |-> tok, posts |-> <<post>>, raised |-> "ConnectionError"]
          ELSE IF o.status_code >= 400
          THEN [tok |-> tok, posts |-> <<post>>, raised |-> "HTTPError"]
          ELSE
            LET d == o.json
                access == d["access_token"]
                refresh == GetDefault(d, "refresh_token", tok.REFRESH_TOKEN)
            IN  [tok |-> [ACCESS_TOKEN |-> access, REFRESH_TOKEN |-> refresh,
                          dotenv |-> save_tokens(tok.dotenv, access, refresh)],
                 posts |-> <<post>>, raised |-> None]

\* The URL api_get requests, fetch.py:57-60.
ResolveUrl(path_or_url) ==
    IF StartsWith(path_or_url, "http://") \/ StartsWith(path_or_url, "https://")
    THEN path_or_url
    ELSE BASE_URL \o path_or_url

\* A faulty retry: `while resp.status_code == 401` in place of the `if` of
\* fetch.py:64, so that a 401 on the retried GET is refreshed and retried again.
RetryWhile401(rf, e, first) ==
    LET get2 == [first EXCEPT !.token = rf.tok.ACCESS_TOKEN]
    IN  IF rf.raised # None
        THEN [tok |-> rf.tok, requests |-> <<first>> \o rf.posts, refreshes |-> 1,
              refreshed |-> FALSE, answers |-> <<e.first>>, raised |-> rf.raised,
              resp |-> NoResponse]
        ELSE IF e.second.status_code = 401
        THEN [tok |-> rf.tok,
              requests |-> <<first>> \o rf.posts \o <<get2>> \o rf.posts \o <<get2>>,
              refreshes |-> 2, refreshed |-> TRUE,
              answers |-> <<e.first, e.second, e.second>>,
              raised |-> None, resp |-> e.second]
        ELSE [tok |-> rf.tok, requests |-> <<first>> \o rf.posts \o <<get2>>,
              refreshes |-> 1, refreshed |-> TRUE, answers |-> <<e.first, e.second>>,
              raised |-> None, resp |-> e.second]

\* A faulty retry: the headers are not rebuilt (fetch.py:66 left out), so
\* that the retried GET carries the token of the first GET.
RetryWithStaleToken(rf, e, first) ==
    IF rf.raised # None
    THEN [tok |-> rf.tok, requests |-> <<first>> \o rf.posts, refreshes |-> 1,
          refreshed |-> FALSE, answers |-> <<e.first>>, raised |-> rf.raised,
          resp |-> NoResponse]
    ELSE IF IsError(e.second)
    THEN [tok |-> rf.tok, requests |-> <<first>> \o rf.posts \o <<first>>,
          refreshes |-> 1, refreshed |-> TRUE, answers |-> <<e.first, e.second>>,
          raised |-> "ConnectionError", resp |-> NoResponse]
    ELSE [tok |-> rf.tok, requests |-> <<first>> \o rf.posts \o <<first>>,
          refreshes |-> 1, refreshed |-> TRUE, answers |-> <<e.first, e.second>>,
          raised |-> None, resp |-> e.second]

\* The retry of api_get after a 401, fetch.py:64-67.  `rf` is the result of
\* the refresh_access_token() of fetch.py:65, `first` the first GET: the
\* retried GET is the first one with the Authorization header rebuilt from
\* the global ACCESS_TOKEN (fetch.py:66-67).
RetryAfter401(rf, e, first) ==
    LET get2 == [first EXCEPT !.token = rf.tok.ACCESS_TOKEN]
    IN  IF rf.raised # None
        THEN [tok |-> rf.tok, requests |-> <<first>> \o rf.posts, refreshes |-> 1,
              refreshed |-> FALSE, answers |-> <<e.first>>, raised |-> rf.raised,
              resp |-> NoResponse]
        ELSE IF IsError(e.second)
        THEN [tok |-> rf.tok, requests |-> <<first>> \o rf.posts \o <<get2>>,
              refreshes |-> 1, refreshed |-> TRUE, answers |-> <<e.first, e.second>>,
              raised |-> "ConnectionError", resp |-> NoResponse]
        ELSE [tok |-> rf.tok, requests |-> <<first>> \o rf.posts \o <<get2>>,
              refreshes |-> 1, refreshed |-> TRUE, answers |-> <<e.first, e.second>>,
              raised |-> None, resp |-> e.second]

\* api_get, fetch.py:50-69.  `e` is what the service answers: e.first to the
\* first GET, e.refresh to the token POST, e.second to the retried GET.
api_get(tok, path_or_url, params, e) ==
    LET url == ResolveUrl(path_or_url)
        get1 == [method |-> "GET", url |-> url, params |-> params,
                 token |-> tok.ACCESS_TOKEN]
    IN  IF IsError(e.first)
        THEN [tok |-> tok, requests |-> <<get1>>, refreshes |-> 0, refreshed |-> FALSE,
              answers |-> <<e.first>>, raised |-> "ConnectionError", resp |-> NoResponse]
        ELSE IF e.first.status_code = 401
        THEN RetryAfter401(refresh_access_token(tok, e.refresh), e, get1)
        ELSE [tok |-> tok, requests |-> <<get1>>, refreshes |-> 0, refreshed |-> FALSE,
              answers |-> <<e.first>>, raised |-> None, resp |-> e.first]

\* ---------------------------------------------------------------- get_contact_name
EM_DASH == "--"

\* An api_get call that was not made.
NoCall(tok) ==
    [tok |-> tok, requests |-> <<>>, refreshes |-> 0, refreshed |-> FALSE,
     answers |-> <<>>, raised |-> None, resp |-> NoResponse]

\* The body of get_contact_name, fetch.py:77-83, run on a cache miss: `e` is
\* what the service answers to its api_get, `body` the JSON of a success.
\* ContactValue is what fetch.py:80-83 returns after the api_get call `call`
\* (None if the call raised), Looked the outcome of a lookup that called.
ContactValue(call, contact_id, body) ==
    IF call.raised # None THEN None
    ELSE IF ~Ok(call.resp) THEN "id:" \o contact_id
    ELSE Or(Get(body, "name"), Or(Get(body, "display_name"), "id:" \o contact_id))

Looked(call, contact_id, body) ==
    [tok |-> call.tok, called |-> TRUE, call |-> call, raised |-> call.raised,
     value |-> ContactValue(call, contact_id, body)]

contact_lookup(tok, contact_id, e, body) ==
    IF ~Truthy(contact_id)
    THEN [tok |-> tok, called |-> FALSE, call |-> NoCall(tok), raised |-> None,
          value |-> EM_DASH]
    ELSE Looked(api_get(tok, "/contacts/" \o contact_id \o "/", NoParams, e),
                contact_id, body)

\* get_contact_name under @lru_cache(maxsize=None), fetch.py:71-83: a hit
\* returns the cached value and runs nothing; a miss runs the body and caches
\* what it returns (an exception caches nothing).  The cache maps every
\* contact id to its cached value, None while it has none.
Cached(cache, contact_id) == contact_id \in DOMAIN cache /\ cache[contact_id] # None

\* What a miss returns: the outcome `r` of the body, and the cache with its
\* value stored.
Memoized(cache, contact_id, r) ==
    [tok |-> r.tok, called |-> r.called, call |-> r.call, raised |-> r.raised,
     value |-> r.value,
     cache |-> IF r.raised = None /\ contact_id \in DOMAIN cache
               THEN [cache EXCEPT ![contact_id] = r.value]
               ELSE cache]

\* A faulty get_contact_name: the @lru_cache decorator of fetch.py:71 left
\* out, so that every call runs the body.
get_contact_name_uncached(tok, cache, contact_id, e, body) ==
    [Memoized(cache, contact_id, contact_lookup(tok, contact_id, e, body))
        EXCEPT !.cache = cache]

get_contact_name(tok, cache, contact_id, e, body) ==
    IF Cached(cache, contact_id)
    THEN [tok |-> tok, called |-> FALSE, call |-> NoCall(tok), raised |-> None,
          value |-> cache[contact_id], cache |-> cache]
    ELSE Memoized(cache, contact_id, contact_lookup(tok, contact_id, e, body))

\* ---------------------------------------------------------------- list_invoices
ExcludedStatuses == {"deleted", "delete", "archived"}

\* fetch.py:130.  `data` is the parsed body, [type |-> "dict", value |-> d] or
\* [type |-> "list", items |-> s].  When neither "results" nor "invoices" holds
\* a non-empty list, `data or []` makes the collection the dict itself, whose
\* iteration yields its keys (strings, not dicts): of_dicts is FALSE then.
ExtractInvoices(d) ==
    IF GetList(d, "results") # <<>>
    THEN [items |-> d["results"], of_dicts |-> TRUE]
    ELSE IF GetList(d, "invoices") # <<>>
    THEN [items |-> d["invoices"], of_dicts |-> TRUE]
    ELSE IF DOMAIN d # {}
    THEN [items |-> d, of_dicts |-> FALSE]
    ELSE [items |-> <<>>, of_dicts |-> TRUE]

\* fetch.py:134
NewIds(invs, seen) ==
    LET fresh == SelectSeq(invs, LAMBDA inv : Get(inv, "id") \notin seen)
    IN  [i \in 1..Len(fresh) |-> Get(fresh[i], "id")]

\* fetch.py:137-139
AddSeen(seen, new_ids) ==
    seen \cup {new_ids[i] : i \in {j \in 1..Len(new_ids) : Truthy(new_ids[j])}}

\* fetch.py:154
IsExcluded(status_lower) == status_lower \in ExcludedStatuses

\* The row of one line item, fetch.py:183-204.
ItemRow(inv_no, date, customer, status, item) ==
    LET desc == Or(Get(item, "description"), Or(Get(item, "name"), "-"))
        qty == GetNumOr(item, "quantity", 1)
        line_amount == GetNumOr(item, "line_amount", 0)
    IN  [invoice_number |-> inv_no, date |-> date, customer |-> customer,
         status |-> status, description |-> desc,
         unit_price |-> IF qty # 0 THEN Format2f(line_amount, qty)
                        ELSE Format2f(line_amount, 1),
         qty |-> ToString(qty),
         line_total |-> Format2f(line_amount, 1)]

\* A faulty placeholder row: the line total written as 0.00 while the unit
\* price stays empty.
PlaceholderRowZeroTotal(inv_no, date, customer, status) ==
    [invoice_number |-> inv_no, date |-> date, customer |-> customer,
     status |-> status, description |-> "-", unit_price |-> "", qty |-> "",
     line_total |-> Format2f(0, 1)]

\* The placeholder row of an invoice without line items, fetch.py:178.
PlaceholderRow(inv_no, date, customer, status) ==
    [invoice_number |-> inv_no, date |-> date, customer |-> customer,
     status |-> status, description |-> "-", unit_price |-> "", qty |-> "",
     line_total |-> ""]

\* Faulty rows of a kept invoice: the `if not line_items` block of
\* fetch.py:173-179 left out, so that an invoice without line items appends
\* nothing.
InvoiceRowsNoPlaceholder(inv, customer) ==
    [i \in 1..Len(GetList(inv, "line_items")) |->
        ItemRow(Or(Get(inv, "invoice_number"), Or(Get(inv, "number"), "")),
                Or(Get(inv, "invoice_date"), Or(Get(inv, "date"), "")),
                customer, Or(Get(inv, "status"), "-"),
                GetList(inv, "line_items")[i])]

\* The rows one kept invoice appends, fetch.py:157-204.
InvoiceRows(inv, customer) ==
    LET status_raw == Or(Get(inv, "status"), "")
        inv_no == Or(Get(inv, "invoice_number"), Or(Get(inv, "number"), ""))
        date == Or(Get(inv, "invoice_date"), Or(Get(inv, "date"), ""))
        status == Or(status_raw, "-")
        line_items == GetList(inv, "line_items")
    IN  IF line_items = <<>>
        THEN <<PlaceholderRow(inv_no, date, customer, status)>>
        ELSE [i \in 1..Len(line_items) |->
                ItemRow(inv_no, date, customer, status, line_items[i])]

\* fetch.py:164
ContactIdOf(inv) == Or(Get(inv, "contact"), Get(inv, "contact_id"))

\* A faulty cursor test: the comparison of fetch.py:211 made against the
\* page number instead of prev_next, so that it never holds.
CursorRepeatsNever(url, prev) == url = ToString(page)

\* fetch.py:211
CursorRepeats(url, prev) == url = prev

\* A faulty fetch target: the `if next_url` of fetch.py:115 left out, so
\* that every iteration fetches /invoices/.
FetchTargetIgnoresCursor(url) == "/invoices/"

\* The target and the query parameters of a page fetch, fetch.py:115-121.
FetchTarget(url) == IF Truthy(url) THEN url ELSE "/invoices/"
FetchParams(url, p) ==
    IF Truthy(url) THEN NoParams
    ELSE IF PAGE_SIZE # 0 THEN [page |-> p, page_size |-> PAGE_SIZE]
    ELSE [page |-> p]

\* The ids carried by the records of a page.
PageIds(invs) == {Get(invs[i], "id") : i \in {j \in 1..Len(invs) : Truthy(Get(invs[j], "id"))}}

\* What last_call keeps of an api_get call made by `by`.
CallBy(by, call) ==
    [by |-> by, tok |-> call.tok, requests |-> call.requests,
     refreshes |-> call.refreshes, refreshed |-> call.refreshed,
     answers |-> call.answers, raised |-> call.raised, resp |-> call.resp]

Tok == [ACCESS_TOKEN |-> ACCESS_TOKEN, REFRESH_TOKEN |-> REFRESH_TOKEN, dotenv |-> dotenv]

SetTok(t) ==
    /\ ACCESS_TOKEN' = t.ACCESS_TOKEN
    /\ REFRESH_TOKEN' = t.REFRESH_TOKEN
    /\ dotenv' = t.dotenv

\* The collection a keyed body carries, as fetch.py:130 reads it: records
\* under "results" or "invoices", one of the two keys with nothing under
\* either, or neither key.
CollectionOf(d) ==
    IF GetList(d, "results") # <<>> \/ GetList(d, "invoices") # <<>> THEN "records"
    ELSE IF {"results", "invoices"} \cap DOMAIN d # {} THEN "empty"
    ELSE "absent"

\* What a page fetch records about itself in last_fetch.
FetchRecord(outcome, produced, ids, collection) ==
    [target |-> ResolveUrl(FetchTarget(next_url)),
     collection |-> collection,
     by_cursor |-> Truthy(next_url),
     page |-> page,
     outcome |-> outcome,
     next |-> produced,
     preceding_next |-> last_fetch.next,
     page_ids |-> ids,
     seen_before |-> seen_ids,
     rows_before |-> csv_rows,
     kept_before |-> total_kept,
     api_before |-> total_from_api,
     same_url_run |-> IF ~Truthy(next_url) THEN 0
                      ELSE IF last_fetch.by_cursor /\ last_fetch.target = next_url
                      THEN last_fetch.same_url_run + 1
                      ELSE 1]

\* A faulty page-fetch stop: resp.raise_for_status() in place of the breaks
\* of fetch.py:123-127, so that a non-success page raises.
FetchStopsRaising(pcv, outcome) ==
    /\ pc' = "raised"
    /\ last_fetch' = FetchRecord(outcome, None, {}, "unread")
    /\ UNCHANGED <<next_url, seen_ids, invoices, idx, total_from_api>>

\* A page fetch that ends the loop before the body is parsed (fetch.py:123-127)
\* or that raises (pcv = "raised").
FetchStops(pcv, outcome) ==
    /\ pc' = pcv
    /\ last_fetch' = FetchRecord(outcome, None, {}, "unread")
    /\ UNCHANGED <<next_url, seen_ids, invoices, idx, total_from_api>>

\* A faulty stop on a page without new ids: total_from_api += len(invoices)
\* (fetch.py:141) moved before the check of fetch.py:135.
BreakNoNewIdsCounted(d, items) ==
    /\ pc' = "summary"
    /\ last_fetch' = FetchRecord("no_new_ids", Get(d, "next"), PageIds(items),
                                CollectionOf(d))
    /\ invoices' = items
    /\ total_from_api' = total_from_api + Len(items)
    /\ UNCHANGED <<seen_ids, idx>>

\* The break of fetch.py:135-136 on a page `items` that brings no new id.
BreakNoNewIds(d, items) ==
    /\ pc' = "summary"
    /\ last_fetch' = FetchRecord("no_new_ids", Get(d, "next"), PageIds(items),
                                CollectionOf(d))
    /\ invoices' = items
    /\ UNCHANGED <<seen_ids, idx, total_from_api>>

\* fetch.py:129-141 on the parsed body `d` of a successful response.
FetchParsed(d) ==
    LET ex == ExtractInvoices(d)
        new_ids == NewIds(ex.items, seen_ids)
    IN  /\ next_url' = Get(d, "next")
        /\ IF ~ex.of_dicts
           THEN \* inv.get on a str key of the dict: AttributeError, fetch.py:134
                /\ pc' = "raised"
                /\ last_fetch' = FetchRecord("raised", Get(d, "next"), {}, CollectionOf(d))
                /\ UNCHANGED <<seen_ids, invoices, idx, total_from_api>>
           ELSE IF new_ids = <<>>
           THEN BreakNoNewIds(d, ex.items)
           ELSE /\ pc' = "process"
                /\ last_fetch' = FetchRecord("ok", Get(d, "next"), PageIds(ex.items),
                                            CollectionOf(d))
                /\ invoices' = ex.items
                /\ idx' = 1
                /\ seen_ids' = AddSeen(seen_ids, new_ids)
                /\ total_from_api' = total_from_api + Len(ex.items)

\* fetch.py:115-141 once api_get has ended as `call`; `data` is the parsed
\* JSON body of a successful response.
FetchAnswered(call, data) ==
    /\ SetTok(call.tok)
    /\ last_call' = CallBy("list_invoices", call)
    /\ n_fetches' = n_fetches + 1
    /\ n_refreshes' = n_refreshes + (IF call.refreshed THEN 1 ELSE 0)
    /\ UNCHANGED <<contact_cache, page, prev_next, csv_rows, total_kept,
                   csv_file, summary, contact_gets, kept_log>>
    /\ IF call.raised # None
       THEN FetchStops("raised", "raised")
       ELSE IF call.resp.status_code = 404
       THEN FetchStops("summary", "404")
       ELSE IF ~Ok(call.resp)
       THEN FetchStops("summary", "error")
       ELSE IF data.type # "dict"
       THEN \* data.get on a list: AttributeError, fetch.py:130
            FetchStops("raised", "raised")
       ELSE FetchParsed(data.value)

\* The head of the while loop and the fetch of one page, fetch.py:113-141.
\* `e` is what the service answers to api_get, `data` the parsed JSON body of
\* a successful response.
FetchPage(e, data) ==
    /\ pc = "fetch"
    /\ IF page > MAX_PAGES
       THEN /\ pc' = "summary"
            /\ UNCHANGED <<ACCESS_TOKEN, REFRESH_TOKEN, dotenv, contact_cache, page,
                           next_url, prev_next, seen_ids, invoices, idx, csv_rows,
                           total_from_api, total_kept, csv_file, summary, last_call,
                           contact_gets, n_fetches, n_refreshes, last_fetch, kept_log>>
       ELSE FetchAnswered(api_get(Tok, FetchTarget(next_url),
                                  FetchParams(next_url, page), e), data)

\* The `continue` and the end of one pass of the for loop of fetch.py:145.
Continue ==
    /\ idx' = idx + 1
    /\ pc' = IF idx = Len(invoices) THEN "next" ELSE "process"

\* fetch.py:165, `r` being what get_contact_name ended as.
CustomerResolved(contact_id, r) ==
    /\ SetTok(r.tok)
    /\ contact_cache' = r.cache
    /\ last_call' = IF r.called THEN CallBy("get_contact_name", r.call) ELSE last_call
    /\ contact_gets' = IF r.called THEN [contact_gets EXCEPT ![contact_id] = @ + 1]
                       ELSE contact_gets
    /\ n_refreshes' = n_refreshes + (IF r.called /\ r.call.refreshed THEN 1 ELSE 0)

\* fetch.py:167-204: the invoice `inv` is kept and appends `rows`.
KeepInvoice(inv, rows) ==
    /\ Continue
    /\ total_kept' = total_kept + 1
    /\ csv_rows' = csv_rows \o rows
    /\ kept_log' = Append(kept_log, [id |-> Get(inv, "id"), at |-> Len(csv_rows) + 1,
                                     rows |-> Len(rows), fetch |-> n_fetches])

\* fetch.py:157-204 on an invoice that is not skipped.
ResolveAndKeep(inv, contact_id, r) ==
    /\ CustomerResolved(contact_id, r)
    /\ IF r.raised # None
       THEN /\ pc' = "raised"
            /\ UNCHANGED <<idx, csv_rows, total_kept, kept_log>>
       ELSE KeepInvoice(inv, InvoiceRows(inv, r.value))

\* The customer of fetch.py:165: get_contact_name is called for a truthy
\* contact id only.
Customer(contact_id, e, body) ==
    IF Truthy(contact_id)
    THEN get_contact_name(Tok, contact_cache, contact_id, e, body)
    ELSE [tok |-> Tok, called |-> FALSE, call |-> NoCall(Tok),
          raised |-> None, value |-> EM_DASH, cache |-> contact_cache]

\* One pass of the for loop of fetch.py:145-204 on the record `inv`.
ProcessRecord(inv, e, body) ==
    IF ~Truthy(Get(inv, "id")) \/ IsExcluded(Lower(Or(Get(inv, "status"), "")))
    THEN /\ Continue
         /\ UNCHANGED <<ACCESS_TOKEN, REFRESH_TOKEN, dotenv, contact_cache,
                        csv_rows, total_kept, last_call, contact_gets,
                        n_refreshes, kept_log>>
    ELSE ResolveAndKeep(inv, ContactIdOf(inv), Customer(ContactIdOf(inv), e, body))

\* One pass of the for loop of fetch.py:145-204 on invoices[idx].  `e` and
\* `body` are what the service answers if get_contact_name calls it.
ProcessInvoice(e, body) ==
    /\ pc = "process"
    /\ ProcessRecord(invoices[idx], e, body)
    /\ UNCHANGED <<page, next_url, prev_next, seen_ids, invoices, total_from_api,
                   csv_file, summary, n_fetches, last_fetch>>

\* The end of one iteration, fetch.py:209-215.
NextPage ==
    /\ pc = "next"
    /\ IF Truthy(next_url)
       THEN IF CursorRepeats(next_url, prev_next)
            THEN pc' = "summary" /\ UNCHANGED <<prev_next, page>>
            ELSE pc' = "fetch" /\ prev_next' = next_url /\ UNCHANGED page
       ELSE pc' = "fetch" /\ page' = page + 1 /\ UNCHANGED prev_next
    /\ UNCHANGED <<ACCESS_TOKEN, REFRESH_TOKEN, dotenv, contact_cache, next_url,
                   seen_ids, invoices, idx, csv_rows, total_from_api, total_kept,
                   csv_file, summary, last_call, contact_gets, n_fetches,
                   n_refreshes, last_fetch, kept_log>>

\* The summary and the CSV export, fetch.py:217-239.
Summary ==
    /\ pc = "summary"
    /\ pc' = "done"
    /\ summary' = [printed |-> TRUE, total_from_api |-> total_from_api,
                   total_kept |-> total_kept]
    /\ csv_file' = IF csv_rows # <<>> THEN [written |-> TRUE, rows |-> csv_rows]
                   ELSE csv_file
    /\ UNCHANGED <<ACCESS_TOKEN, REFRESH_TOKEN, dotenv, contact_cache, page, next_url,
                   prev_next, seen_ids, invoices, idx, csv_rows, total_from_api,
                   total_kept, last_call, contact_gets, n_fetches, n_refreshes,
                   last_fetch, kept_log>>

\* ---------------------------------------------------------------- the remote service
Contacts == {"k1", "k2"}
Cursors == {"https://api.example/invoices/?cursor=c1",
            "https://api.example/invoices/?cursor=c2"}

Item1 == [description |-> "Widget", quantity |-> 3, line_amount |-> 30]
Item2 == [name |-> "Service", qty |-> 3, amount |-> 30]
Item3 == [description |-> "", name |-> "Hours", quantity |-> 4, line_amount |-> 30]

InvFull(id) ==
    [id |-> id, status |-> "Paid", invoice_number |-> "INV-1",
     invoice_date |-> "2024-01-05", contact |-> "k1", line_items |-> <<Item1, Item2>>]
InvAlt(id) ==
    [id |-> id, number |-> "N-2", date |-> "2024-02-01", contact_id |-> "k1",
     line_items |-> <<>>]
InvDraft(id) ==
    [id |-> id, status |-> "Draft", invoice_number |-> "", number |-> "N-4",
     contact |-> "", contact_id |-> "k2", line_items |-> <<Item3>>]
InvBare(id) == [id |-> id]
InvGone(id, status) ==
    [id |-> id, status |-> status, invoice_number |-> "INV-3", contact |-> "k2"]
InvNoId == [status |-> "Paid", invoice_number |-> "INV-9", contact |-> "k2"]

\* The invoice collections the service sends under Spec.
Pages ==
    {<<InvFull("i1"), InvAlt("i2")>>,
     <<InvFull("i1"), InvDraft("i3")>>,
     <<InvNoId>>,
     <<InvGone("i2", "Deleted"), InvGone("i2", "ARCHIVED"), InvGone("i3", "delete"),
       InvGone("i3", "Archived"), InvBare("i3")>>}

\* The JSON bodies of a successful /invoices/ response under Spec.
PageBodies ==
    {[type |-> "dict", value |-> [results |-> p, next |-> c]] :
        p \in Pages, c \in Cursors \cup {None}}
    \cup {[type |-> "dict", value |-> [invoices |-> p]] : p \in {<<InvAlt("i2")>>}}
    \cup {[type |-> "dict", value |-> [results |-> <<>>, next |-> None]],
          [type |-> "dict", value |-> EmptyDict],
          [type |-> "list", items |-> <<InvAlt("i2")>>]}

\* The JSON bodies of a successful /contacts/{id}/ response.
ContactBodies == {[name |-> "Acme"], [name |-> "", display_name |-> "Acme Ltd"], EmptyDict}

\* The JSON bodies of a successful token response, after n refreshes.
TokenBodies(n) ==
    LET access == "a" \o ToString(n + 1)
    IN  {[access_token |-> access],
         [access_token |-> access, refresh_token |-> "r" \o ToString(n + 1)],
         [access_token |-> access, refresh_token |-> None]}

Unused == [unused |-> TRUE]

\* What the service answers to one api_get call: no 401, a 401 followed by a
\* failed refresh, or a 401 followed by a successful refresh and the answer
\* to the retried GET.
DirectScripts ==
    {[first |-> a, refresh |-> Unused, second |-> Unused] :
        a \in {Response(200), Response(404), Response(500), NetworkError}}
FailedRefreshScripts ==
    {[first |-> Response(401), refresh |-> r, second |-> Unused] :
        r \in {NetworkError, Response(400)}}
RetryScripts(n) ==
    {[first |-> Response(401), refresh |-> [status_code |-> 200, json |-> d],
      second |-> a] :
        d \in TokenBodies(n), a \in {Response(200), Response(401)}}
Scripts(n) ==
    DirectScripts \cup FailedRefreshScripts
    \cup (IF n < MaxRefreshes THEN RetryScripts(n) ELSE {})

PlainScript == [first |-> Response(200), refresh |-> Unused, second |-> Unused]
NoData == [type |-> "none"]

\* The api_get call answered by e ends in a success response, whose body is read.
Returned(call) == call.raised = None /\ Ok(call.resp)
Succeeds(e) == Returned(api_get(Tok, "/", NoParams, e))

\* The record under the for loop makes get_contact_name call the service.
NeedsContact ==
    /\ pc = "process"
    /\ LET inv == invoices[idx]
       IN  /\ Truthy(Get(inv, "id"))
           /\ ~IsExcluded(Lower(Or(Get(inv, "status"), "")))
           /\ Truthy(ContactIdOf(inv))
           /\ ~Cached(contact_cache, ContactIdOf(inv))

\* ---------------------------------------------------------------- specification
\* The state in which list_invoices starts, fetch.py:103-111, with the tokens
\* read from the environment (the refresh token may be missing).
Init ==
    /\ pc = "fetch"
    /\ ACCESS_TOKEN = "a0"
    /\ REFRESH_TOKEN \in {"r0", None}
    /\ dotenv = [ACCESS_TOKEN |-> ACCESS_TOKEN, REFRESH_TOKEN |-> REFRESH_TOKEN]
    /\ contact_cache = [k \in Contacts |-> None]
    /\ page = 1
    /\ next_url = None
    /\ prev_next = None
    /\ seen_ids = {}
    /\ invoices = <<>>
    /\ idx = 1
    /\ csv_rows = <<>>
    /\ total_from_api = 0
    /\ total_kept = 0
    /\ csv_file = [written |-> FALSE, rows |-> <<>>]
    /\ summary = [printed |-> FALSE, total_from_api |-> 0, total_kept |-> 0]
    /\ last_call = [by |-> "nobody", tok |-> Tok, requests |-> <<>>, refreshes |-> 0,
                    refreshed |-> FALSE, answers |-> <<>>, raised |-> None,
                    resp |-> NoResponse]
    /\ contact_gets = [k \in Contacts |-> 0]
    /\ n_fetches = 0
    /\ n_refreshes = 0
    /\ last_fetch = [target |-> None, collection |-> "unread", by_cursor |-> FALSE,
                     page |-> 0,
                     outcome |-> "none", next |-> None, preceding_next |-> None,
                     page_ids |-> {}, seen_before |-> {}, rows_before |-> <<>>,
                     kept_before |-> 0, api_before |-> 0, same_url_run |-> 0]
    /\ kept_log = <<>>

Fetch ==
    /\ n_fetches < MaxFetches
    /\ \E e \in Scripts(n_refreshes) :
          IF Succeeds(e)
          THEN \E data \in PageBodies : FetchPage(e, data)
          ELSE FetchPage(e, NoData)

Process ==
    IF NeedsContact
    THEN \E e \in Scripts(n_refreshes) :
            IF Succeeds(e)
            THEN \E body \in ContactBodies : ProcessInvoice(e, body)
            ELSE ProcessInvoice(e, EmptyDict)
    ELSE ProcessInvoice(PlainScript, EmptyDict)

Next == Fetch \/ Process \/ NextPage \/ Summary

Spec == Init /\ [][Next]_vars

\* A cursor-driven service with more pages than CapFetches: every page
\* carries one invoice not sent before and a next cursor.
CapBodies ==
    {[type |-> "dict",
      value |-> [results |-> <<InvBare("n" \o ToString(n_fetches + 1))>>, next |-> c]] :
        c \in Cursors}

FetchCap ==
    /\ n_fetches < CapFetches
    /\ \E data \in CapBodies : FetchPage(PlainScript, data)

NextCap == FetchCap \/ ProcessInvoice(PlainScript, EmptyDict) \/ NextPage \/ Summary

SpecCap == Init /\ [][NextCap]_vars

\* A service that mixes cursor-driven and page-number-driven pages and never
\* fails: every page carries one invoice, either not sent before or the
\* invoice of the first page again, and a next cursor or none.
CursorBodies ==
    {[type |-> "dict", value |-> [results |-> <<InvBare(id)>>, next |-> c]] :
        id \in {"n" \o ToString(n_fetches + 1), "n1"}, c \in Cursors \cup {None}}

FetchCursor ==
    /\ n_fetches < MaxCursorFetches
    /\ \E data \in CursorBodies : FetchPage(PlainScript, data)

NextCursor == FetchCursor \/ ProcessInvoice(PlainScript, EmptyDict) \/ NextPage \/ Summary

SpecCursor == Init /\ [][NextCursor]_vars

\* ---------------------------------------------------------------- claims
\* The latest page fetch got a success response whose records were read and
\* carried no invoice id that was not in seen_ids before it.
NoNewIdPage ==
    /\ last_fetch.outcome \in {"ok", "no_new_ids"}
    /\ last_fetch.page_ids \subseteq last_fetch.seen_before

\* C1: once a successfully fetched page carries no invoice id that is not
\* already in seen_ids (a page whose records carry no id at all included),
\* no further page fetch is issued in the run.
C1_NoFetchAfterNoNewIds == [][NoNewIdPage => n_fetches' = n_fetches]_vars

\* C2: one run issues at most MAX_PAGES (500) page fetches, whatever the
\* service answers.
C2_AtMostMaxPagesFetches == n_fetches <= MAX_PAGES

\* The latest page was read and produced a next cursor equal to the one the
\* preceding page produced.
CursorRepeated ==
    /\ last_fetch.outcome \in {"ok", "no_new_ids"}
    /\ Truthy(last_fetch.next)
    /\ last_fetch.next = last_fetch.preceding_next

GetsOf(call) == SelectSeq(call.requests, LAMBDA r : r.method = "GET")
PostsOf(call) == SelectSeq(call.requests, LAMBDA r : r.method = "POST")
Is401(o) == ~IsError(o) /\ o.status_code = 401

\* C4: one api_get call issues at most 2 GETs and at most 1 refresh; a
\* second GET only follows a 401 on the first; a 401 on the second GET is
\* returned with no further refresh or GET; a first response other than 401
\* is returned with no refresh and no retry.
C4_AtMostOneRetry ==
    LET gets == GetsOf(last_call)
        posts == PostsOf(last_call)
        answers == last_call.answers
    IN  /\ Len(gets) <= 2
        /\ last_call.refreshes <= 1
        /\ Len(posts) <= 1
        /\ Len(answers) = Len(gets)
        /\ Len(gets) = 2 => Is401(answers[1])
        /\ (Len(answers) = 2 /\ Is401(answers[2])) =>
              /\ last_call.raised = None
              /\ last_call.resp = answers[2]
              /\ last_call.refreshes = 1
        /\ (Len(answers) >= 1 /\ ~IsError(answers[1]) /\ ~Is401(answers[1])) =>
              /\ last_call.raised = None
              /\ last_call.resp = answers[1]
              /\ last_call.refreshes = 0
              /\ Len(gets) = 1
              /\ Len(posts) = 0

C4_Witness ==
    /\ Len(last_call.answers) = 2
    /\ Is401(last_call.answers[1])
    /\ Is401(last_call.answers[2])
    /\ last_call.refreshed

\* The latest page fetch returned 404 or another non-success status.
PageFailed == last_fetch.outcome \in {"404", "error"}

\* C5: after a page fetch that returns 404 or another non-success status the
\* loop has stopped without raising, the rows and counts gathered before it
\* are unchanged, and once the run is done they are the rows written to the
\* CSV file and the counts of the summary.
C5_FailedPageKeepsRows ==
    PageFailed =>
        /\ pc \in {"summary", "done"}
        /\ csv_rows = last_fetch.rows_before
        /\ total_kept = last_fetch.kept_before
        /\ total_from_api = last_fetch.api_before
        /\ pc = "done" =>
              /\ summary = [printed |-> TRUE, total_from_api |-> last_fetch.api_before,
                            total_kept |-> last_fetch.kept_before]
              /\ last_fetch.rows_before # <<>> =>
                    csv_file = [written |-> TRUE, rows |-> last_fetch.rows_before]

C5_Witness ==
    /\ last_fetch.outcome = "error"
    /\ Len(last_call.answers) = 2
    /\ Is401(last_call.answers[2])
    /\ pc = "done"
    /\ Len(csv_file.rows) >= 2

\* C6: a network-level error or a failed token response during the fetch or
\* the processing of a page, after rows were gathered from earlier pages,
\* does not end the run in an exception: the run goes on to the export.
C6_RunCompletesAfterTransportError ==
    (last_call.raised \in {"ConnectionError", "HTTPError"}
     /\ last_fetch.rows_before # <<>>)
        => pc # "raised"

\* The spellings of the three excluded statuses the service sends.
ExcludedSpellings ==
    {"Deleted", "DELETED", "deleted", "Delete", "delete", "Archived", "ARCHIVED",
     "archived"}

\* The record under the for loop carries an excluded status, in any case.
AtExcluded ==
    /\ pc = "process"
    /\ Get(invoices[idx], "status") \in ExcludedSpellings

\* C7: a record whose status is deleted, delete or archived in any letter
\* case adds no export row and no total_kept increment, and the records of
\* the page being processed are all counted in total_from_api.
C7_ExcludedStatusNotKept ==
    /\ [][AtExcluded => /\ csv_rows' = csv_rows
                        /\ total_kept' = total_kept
                        /\ kept_log' = kept_log
                        /\ total_from_api' = total_from_api]_vars
    /\ [](pc \in {"process", "next"} =>
            total_from_api = last_fetch.api_before + Len(invoices))

C7_Witness ==
    /\ pc = "next"
    /\ Len(invoices) = 5
    /\ Get(invoices[2], "status") = "ARCHIVED"
    /\ Truthy(Get(invoices[2], "id"))
    /\ total_kept = 1
    /\ total_from_api = 5

\* A kept record without a contact id is under the for loop.
AtNoContact ==
    /\ pc = "process"
    /\ Truthy(Get(invoices[idx], "id"))
    /\ Get(invoices[idx], "status") \notin ExcludedSpellings
    /\ ~Truthy(Get(invoices[idx], "contact"))
    /\ ~Truthy(Get(invoices[idx], "contact_id"))

\* C8: a record without a contact id gets the em-dash placeholder with no
\* api_get call, and no contact id is looked up by more than one api_get call
\* in a run.
C8_ContactLookedUpOnce ==
    /\ [](\A k \in Contacts : contact_gets[k] <= 1)
    /\ [][AtNoContact => /\ last_call' = last_call
                         /\ contact_gets' = contact_gets
                         /\ Len(csv_rows') > Len(csv_rows)
                         /\ \A i \in (Len(csv_rows) + 1)..Len(csv_rows') :
                               csv_rows'[i].customer = EM_DASH]_vars

C8_Witness ==
    /\ contact_gets["k1"] = 1
    /\ Len(csv_rows) = 4
    /\ csv_rows[1].customer = "id:k1"
    /\ csv_rows[3].customer = "id:k1"
    /\ csv_rows[3].invoice_number = "N-2"
    /\ csv_rows[4].customer = EM_DASH

\* C9: no invoice id is kept (rows appended, total_kept incremented) more
\* than once in a run.
C9_IdKeptAtMostOnce ==
    \A i, j \in 1..Len(kept_log) : i # j => kept_log[i].id # kept_log[j].id

\* C10: every export row has a non-empty invoice_number, date, customer and
\* status, and its unit_price and line_total are both present or both empty.
C10_RowFieldsNonEmpty ==
    \A i \in 1..Len(csv_rows) :
        /\ Truthy(csv_rows[i].invoice_number)
        /\ Truthy(csv_rows[i].date)
        /\ Truthy(csv_rows[i].customer)
        /\ Truthy(csv_rows[i].status)
        /\ csv_rows[i].unit_price = "" <=> csv_rows[i].line_total = ""

\* C10 as amended: every export row has a non-empty customer and status, an
\* invoice_number and a date that are strings (empty when the raw fields are
\* absent or empty), and unit_price and line_total both present or both empty.
C10_RowFieldsAmended ==
    \A i \in 1..Len(csv_rows) :
        /\ csv_rows[i].invoice_number # None
        /\ csv_rows[i].date # None
        /\ Truthy(csv_rows[i].customer)
        /\ Truthy(csv_rows[i].status)
        /\ csv_rows[i].unit_price # None
        /\ csv_rows[i].line_total # None
        /\ csv_rows[i].unit_price = "" <=> csv_rows[i].line_total = ""

C10_Witness ==
    \E i, j \in 1..Len(csv_rows) :
        /\ csv_rows[i].invoice_number = ""
        /\ csv_rows[i].date = ""
        /\ csv_rows[i].status = "-"
        /\ csv_rows[i].unit_price = ""
        /\ csv_rows[j].unit_price = "10.00"
        /\ csv_rows[j].line_total = "30.00"

\* A step in which a token refresh succeeded.
RefreshSucceeded == n_refreshes' = n_refreshes + 1

\* C11: a successful refresh replaces the access token by the one of the token
\* response, and never leaves the run without a refresh token when it held
\* one before the refresh.
C11_RefreshTokenNeverLost ==
    [][(RefreshSucceeded /\ Truthy(REFRESH_TOKEN)) =>
          /\ ACCESS_TOKEN' \in {d.access_token : d \in TokenBodies(n_refreshes)}
          /\ Truthy(REFRESH_TOKEN')]_vars

\* A step in which api_get was called.
ApiGetCalled == n_fetches' # n_fetches \/ contact_gets' # contact_gets

\* C12: a refresh attempted while no refresh token is held (the first GET of
\* an api_get call answers 401) raises RuntimeError with no request to the
\* token endpoint, and leaves the access token, the refresh token and the
\* persisted credentials as they were.
C12_NoRefreshTokenFailsEarly ==
    [][(ApiGetCalled /\ ~Truthy(REFRESH_TOKEN) /\ Is401(last_call'.answers[1])) =>
          /\ last_call'.raised = "RuntimeError"
          /\ PostsOf(last_call') = <<>>
          /\ Len(last_call'.requests) = 1
          /\ pc' = "raised"
          /\ UNCHANGED <<ACCESS_TOKEN, REFRESH_TOKEN, dotenv>>]_vars

C12_Witness ==
    /\ last_call.raised = "RuntimeError"
    /\ last_call.by = "get_contact_name"
    /\ Is401(last_call.answers[1])
    /\ REFRESH_TOKEN = None
    /\ dotenv = [ACCESS_TOKEN |-> "a0", REFRESH_TOKEN |-> None]

\* A step of the for loop that keeps the record under it.
KeepsRecord == pc = "process" /\ total_kept' = total_kept + 1

\* The rows a step appended to csv_rows.
Appended == SubSeq(csv_rows', Len(csv_rows) + 1, Len(csv_rows'))

\* C13: a kept invoice whose line_items is absent or empty appends exactly
\* one row, with description "-" and empty unit_price, qty and line_total; a
\* kept invoice with n >= 1 line items appends exactly n rows, in line-item
\* order; rows are appended by kept invoices only, after the rows already there.
C13_RowsPerKeptInvoice ==
    /\ [][KeepsRecord =>
            LET items == GetList(invoices[idx], "line_items")
            IN  /\ SubSeq(csv_rows', 1, Len(csv_rows)) = csv_rows
                /\ IF items = <<>>
                   THEN /\ Len(Appended) = 1
                        /\ Appended[1].description = "-"
                        /\ Appended[1].unit_price = ""
                        /\ Appended[1].qty = ""
                        /\ Appended[1].line_total = ""
                   ELSE /\ Len(Appended) = Len(items)
                        /\ \A i \in 1..Len(items) :
                              Appended[i].description =
                                  Or(Get(items[i], "description"),
                                     Or(Get(items[i], "name"), "-"))]_vars
    /\ [][csv_rows' # csv_rows => KeepsRecord]_vars

C13_Witness ==
    /\ Len(csv_rows) = 3
    /\ total_kept = 2
    /\ csv_rows[1].description = "Widget"
    /\ csv_rows[2].description = "Service"
    /\ csv_rows[3].description = "-"
    /\ csv_rows[3].invoice_number = "N-2"
    /\ csv_rows[3].qty = ""

\* The quantity and the line total of a line item as C14 states them: the
\* first non-empty of quantity, qty (default 1) and the first non-empty of
\* line_amount, amount, total (default 0).
FirstQuantity(item) == GetNumOr(item, "quantity", GetNumOr(item, "qty", 1))
FirstLineTotal(item) ==
    GetNumOr(item, "line_amount", GetNumOr(item, "amount", GetNumOr(item, "total", 0)))

\* C14: the row of every line item carries as quantity the first non-empty of
\* quantity, qty (default 1), as line_total the first non-empty of
\* line_amount, amount, total (default 0) with two decimals, and as
\* unit_price their quotient with two decimals: {qty: 3, amount: 30} gives
\* quantity 3, line_total 30.00 and unit_price 10.00.
C14_QuantityAndTotalFallbacks ==
    [][KeepsRecord =>
          LET items == GetList(invoices[idx], "line_items")
          IN  \A i \in 1..Len(items) :
                 /\ i <= Len(Appended)
                 /\ Appended[i].qty = ToString(FirstQuantity(items[i]))
                 /\ Appended[i].line_total = Format2f(FirstLineTotal(items[i]), 1)
                 /\ Appended[i].unit_price =
                       Format2f(FirstLineTotal(items[i]), FirstQuantity(items[i]))]_vars

\* The latest page fetch got a success response whose body is a keyed
\* structure with an empty results (or invoices) collection.
EmptyCollectionPage == last_fetch.collection = "empty"

\* C15: a successful response whose body is a keyed structure with an empty
\* results (or invoices) collection ends the loop normally: the run reaches
\* the summary and, once it is done, has exported the rows gathered so far.
C15_EmptyCollectionEndsNormally ==
    EmptyCollectionPage =>
        /\ pc \in {"summary", "done"}
        /\ csv_rows = last_fetch.rows_before
        /\ pc = "done" =>
              /\ summary.printed
              /\ last_fetch.rows_before # <<>> =>
                    csv_file = [written |-> TRUE, rows |-> last_fetch.rows_before]

\* The loop ended on the latest page because it brought no new ids.
StoppedOnNoNewIds == last_fetch.outcome = "no_new_ids"

\* C16: the page on which the loop ends because it brings no new ids adds
\* nothing: total_from_api, total_kept and the rows stay as the earlier pages
\* left them, and they are the counts of the summary and the rows exported.
C16_LastPageContributesNothing ==
    StoppedOnNoNewIds =>
        /\ pc \in {"summary", "done"}
        /\ total_from_api = last_fetch.api_before
        /\ total_kept = last_fetch.kept_before
        /\ csv_rows = last_fetch.rows_before
        /\ pc = "done" =>
              /\ summary = [printed |-> TRUE, total_from_api |-> last_fetch.api_before,
                            total_kept |-> last_fetch.kept_before]
              /\ csv_file.rows = last_fetch.rows_before

C16_Witness ==
    /\ StoppedOnNoNewIds
    /\ pc = "done"
    /\ last_fetch.page_ids = {"i1", "i2"}
    /\ last_fetch.seen_before = {"i1", "i2"}
    /\ summary.total_from_api = 2
    /\ summary.total_kept = 2
    /\ Len(csv_file.rows) = 3

\* C17: at the end of an iteration the cursor-repeat rule ends the run only
\* when the page produced a cursor equal to the cursor the immediately
\* preceding iteration produced; a cursor produced after an iteration that
\* produced none is adopted as next_url and fetched, whatever earlier
\* iterations produced.
C17_RepeatRuleComparesPrecedingIteration ==
    [][pc = "next" =>
          /\ pc' = "summary" =>
                (Truthy(next_url) /\ next_url = last_fetch.preceding_next)
          /\ (Truthy(next_url) /\ ~Truthy(last_fetch.preceding_next)) =>
                (pc' = "fetch" /\ next_url' = next_url)]_vars

\* A step that fetches a page.
FetchesPage == n_fetches' = n_fetches + 1

\* C18: every iteration fetches the cursor URL exactly when the previous
\* processed page produced a next cursor, and otherwise /invoices/ with the
\* current page number; the page number goes up by exactly one at the end of
\* an iteration whose page produced no cursor, and changes at no other step.
C18_FetchTargetFollowsPreviousPage ==
    /\ [][FetchesPage =>
            IF Truthy(last_fetch.next)
            THEN /\ last_call'.requests[1].url = last_fetch.next
                 /\ last_call'.requests[1].params = NoParams
                 /\ last_fetch'.by_cursor
            ELSE /\ last_call'.requests[1].url = BASE_URL \o "/invoices/"
                 /\ last_call'.requests[1].params = [page |-> page, page_size |-> PAGE_SIZE]
                 /\ ~last_fetch'.by_cursor]_vars
    /\ [][page' = IF pc = "next" /\ ~Truthy(last_fetch.next) THEN page + 1 ELSE page]_vars

C18_Witness ==
    /\ n_fetches = 3
    /\ last_fetch.by_cursor
    /\ last_fetch.page = 2
    /\ ~Truthy(last_fetch.next)
    /\ pc = "fetch"
    /\ page = 3

\* C19: in an api_get call whose first GET answers 401 and whose refresh
\* succeeds, the requests are the GET, the token POST and the retried GET in
\* that order; the retried GET has the URL and the query parameters of the
\* first and carries the access token of the token response, not the token
\* of the first GET.  Every api_get call starts with the global access
\* token, which is the latest refreshed one and changes by a refresh only.
C19_RetryCarriesRefreshedToken ==
    /\ [](last_call.refreshed =>
            /\ Len(last_call.requests) = 3
            /\ last_call.requests[1].method = "GET"
            /\ last_call.requests[2].method = "POST"
            /\ last_call.requests[3].method = "GET"
            /\ last_call.requests[3].url = last_call.requests[1].url
            /\ last_call.requests[3].params = last_call.requests[1].params
            /\ last_call.requests[3].token = "a" \o ToString(n_refreshes)
            /\ last_call.requests[3].token # last_call.requests[1].token)
    /\ [](ACCESS_TOKEN = "a" \o ToString(n_refreshes))
    /\ [][ApiGetCalled => last_call'.requests[1].token = ACCESS_TOKEN]_vars

C19_Witness ==
    /\ last_call.refreshed
    /\ last_call.by = "get_contact_name"
    /\ last_call.requests[1].url = "https://api.example/contacts/k1/"
    /\ last_call.requests[1].token = "a0"
    /\ last_call.requests[3].url = "https://api.example/contacts/k1/"
    /\ last_call.requests[3].token = "a1"
    /\ Ok(last_call.resp)
    /\ ACCESS_TOKEN = "a1"

\* C20: every iteration that goes back to the head of the loop has strictly
\* enlarged seen_ids, so the number of iterations is at most the number of
\* distinct ids seen plus one; seen_ids never shrinks, and a processed page
\* leaves it holding exactly the ids it held before and the ids of the page.
C20_SeenIdsStrictlyGrow ==
    [][/\ (pc = "next" /\ pc' = "fetch") =>
             /\ last_fetch.seen_before \subseteq seen_ids
             /\ last_fetch.seen_before # seen_ids
       /\ n_fetches' <= Cardinality(seen_ids') + 1
       /\ seen_ids \subseteq seen_ids'
       /\ last_fetch'.outcome \in {"ok", "no_new_ids"} =>
             seen_ids' = last_fetch'.seen_before \cup last_fetch'.page_ids]_vars

====
